---- MODULE Spec2Model ----
(***************************************************************************)
(* Model of the mistake-detection scoring engine of AI-Group-Study         *)
(* (src/api/scorer.py).                                                    *)
(*                                                                         *)
(* A Python str is a sequence of one-character strings, so that            *)
(* normalisation, regular-expression search, substring tests and the       *)
(* fuzzy ratio are computed character by character as the code does.       *)
(* Python's None is the value None below; a MatchResult is a record.       *)
(*                                                                         *)
(* The later sections model callers of the engine on several threads, the  *)
(* HTTP session routes (src/api/app.py), the canned-dialogue generator     *)
(* (src/api/orchestrator.py) and the locked store (src/api/session_store.py).*)
(***************************************************************************)
EXTENDS Integers, Sequences, FiniteSets, TLC

VARIABLES
    pc,            \* which call has just returned ("idle" between calls)
    nlp,           \* the module-level analyzer handle: "None" or "loaded"
    text,          \* text argument of the last single-text call
    patterns,      \* phrase-list argument of the last call
    peer_text,     \* score_pair arguments
    teacher_text,
    expected_mistakes,
    ret,           \* value returned by the last call
    tables,        \* the module-level tables of scorer.py, by name
    calls,         \* per thread: the frame of its score_pair call
    run_args,      \* arguments of the last run_session call
    SESSION_STORE, \* app.py: dict from session id to its list of turns
    reqs,          \* per worker thread of the HTTP server: the request it serves
    _store,        \* SessionStore._store: dict from session id to its record
    _lock,         \* SessionStore._lock: the thread holding it, or "free"
    store_calls,   \* per thread: the frame of its SessionStore method call
    store_log      \* the create_session and set_transcript calls, in the
                   \* order in which they entered their with-block

httpVars == <<run_args, SESSION_STORE, reqs>>
storeVars == <<_store, _lock, store_calls, store_log>>
serviceVars == <<tables, calls, httpVars, storeVars>>
callVars == <<pc, text, patterns, peer_text, teacher_text, expected_mistakes, ret>>
vars == <<pc, nlp, text, patterns, peer_text, teacher_text, expected_mistakes, ret,
          tables, calls, run_args, SESSION_STORE, reqs,
          _store, _lock, store_calls, store_log>>

(***************************************************************************)
(* Python values                                                           *)
(***************************************************************************)
\* None: a one-element sequence whose element is not a character, so it is
\* comparable with every str of the model and equal to none of them.
None == <<"None">>

\* Python truthiness of an Optional[str]: not text
Falsy(s) == s = None \/ s = <<>>

Min(a, b) == IF a <= b THEN a ELSE b
Max(a, b) == IF a >= b THEN a ELSE b

(***************************************************************************)
(* Characters                                                              *)
(***************************************************************************)
LowerLetters == <<"a","b","c","d","e","f","g","h","i","j","k","l","m",
                  "n","o","p","q","r","s","t","u","v","w","x","y","z">>
UpperLetters == <<"A","B","C","D","E","F","G","H","I","J","K","L","M",
                  "N","O","P","Q","R","S","T","U","V","W","X","Y","Z">>
Digits == <<"0","1","2","3","4","5","6","7","8","9">>

\* printable ASCII (without the quote, backslash and backquote) in code-point order (str comparison in sorted())
CodePoints == <<" ","!","#","$","%","&","'","(",")","*","+",",","-",".","/">>
              \o Digits \o <<":",";","<","=",">","?","@">> \o UpperLetters
              \o <<"[","]","^","_">> \o LowerLetters \o <<"{","|","}","~">>

Range(f) == {f[i] : i \in DOMAIN f}

LowerSet == Range(LowerLetters)
UpperSet == Range(UpperLetters)
DigitSet == Range(Digits)

\* \s of the re module, str.strip() and str.split(): whitespace
SpaceSet == {" ", "\t", "\n", "\r"}
IsSpace(c) == c \in SpaceSet

\* \w of the re module
IsWord(c) == c \in LowerSet \cup UpperSet \cup DigitSet \cup {"_"}

ToLower == [c \in UpperSet |-> LowerLetters[CHOOSE i \in 1..26 : UpperLetters[i] = c]]
LowerChar(c) == IF c \in UpperSet THEN ToLower[c] ELSE c

\* str.lower()
Lower(s) == [i \in 1..Len(s) |-> LowerChar(s[i])]

Ord == [c \in Range(CodePoints) |-> CHOOSE i \in 1..Len(CodePoints) : CodePoints[i] = c]

(***************************************************************************)
(* str helpers                                                             *)
(***************************************************************************)
\* \b at position i of s (between s[i-1] and s[i])
WordBoundary(s, i) ==
    LET before == i > 1 /\ IsWord(s[i-1])
        after  == i <= Len(s) /\ IsWord(s[i])
    IN before # after

\* str.strip()
RECURSIVE LStrip(_)
LStrip(s) == IF s # <<>> /\ IsSpace(Head(s)) THEN LStrip(Tail(s)) ELSE s
RECURSIVE RStrip(_)
RStrip(s) == IF s # <<>> /\ IsSpace(s[Len(s)]) THEN RStrip(SubSeq(s, 1, Len(s)-1)) ELSE s
Strip(s) == RStrip(LStrip(s))

\* str.split(): the maximal runs of non-whitespace characters
RECURSIVE SplitFrom(_, _, _, _)
SplitFrom(s, i, cur, acc) ==
    IF i > Len(s) THEN (IF cur = <<>> THEN acc ELSE Append(acc, cur))
    ELSE IF IsSpace(s[i])
         THEN SplitFrom(s, i+1, <<>>, IF cur = <<>> THEN acc ELSE Append(acc, cur))
         ELSE SplitFrom(s, i+1, Append(cur, s[i]), acc)
Split(s) == SplitFrom(s, 1, <<>>, <<>>)

\* " ".join(tokens)
RECURSIVE Join(_)
Join(toks) ==
    IF toks = <<>> THEN <<>>
    ELSE IF Len(toks) = 1 THEN toks[1]
    ELSE toks[1] \o <<" ">> \o Join(Tail(toks))

\* p in txt, for two str
Contains(txt, p) ==
    \E i \in 1..(Len(txt) - Len(p) + 1) : SubSeq(txt, i, i + Len(p) - 1) = p

(***************************************************************************)
(* _normalize_keep_paren                                                   *)
(***************************************************************************)
\* t.replace("/", " ")
ReplaceSlash(t) == [i \in 1..Len(t) |-> IF t[i] = "/" THEN " " ELSE t[i]]

\* re.sub(r"\bvs\b", " vs ", t, flags=re.I): leftmost non-overlapping matches
VsAt(t, i) ==
    /\ i + 1 <= Len(t)
    /\ LowerChar(t[i]) = "v"
    /\ LowerChar(t[i+1]) = "s"
    /\ WordBoundary(t, i)
    /\ WordBoundary(t, i + 2)
RECURSIVE SubVsFrom(_, _)
SubVsFrom(t, i) ==
    IF i > Len(t) THEN <<>>
    ELSE IF VsAt(t, i) THEN <<" ","v","s"," ">> \o SubVsFrom(t, i + 2)
    ELSE <<t[i]>> \o SubVsFrom(t, i + 1)
SubVs(t) == SubVsFrom(t, 1)

\* re.sub(r"[^0-9A-Za-z\s\^\*\(\)\+\-]", " ", t)
Kept_word(c) == c \in LowerSet \cup UpperSet \cup DigitSet \cup SpaceSet
                  \cup {"_", "^", "*", "(", ")", "+", "-"}   \* a variant with \w for 0-9A-Za-z
Kept(c) == c \in LowerSet \cup UpperSet \cup DigitSet \cup SpaceSet
                  \cup {"^", "*", "(", ")", "+", "-"}
SubPunct(t) == [i \in 1..Len(t) |-> IF Kept(t[i]) THEN t[i] ELSE " "]

\* " ".join(t.split())
Collapse(t) == Join(Split(t))

_normalize_keep_paren(s) ==
    IF Falsy(s) THEN <<>>
    ELSE Lower(Collapse(SubPunct(SubVs(ReplaceSlash(Strip(s))))))

(***************************************************************************)
(* Regular expressions (the subset of re used by COMPLEXITY_REGEX).        *)
(* A pattern is a tree; Ends(r, s, i) is the set of positions at which a   *)
(* match of r that starts at position i of s can end, so Search is         *)
(* rx.search(s) is not None.  All patterns are compiled with re.I.         *)
(***************************************************************************)
Lit(c)  == [t |-> "lit", c |-> c]              \* a literal character
Cls(cs) == [t |-> "cls", cs |-> cs]            \* a character class
Cat(rs) == [t |-> "cat", rs |-> rs]            \* r1 r2 ... rn
Alt(rs) == [t |-> "alt", rs |-> rs]            \* r1 | r2 | ... | rn
Opt(r)  == [t |-> "opt", r |-> r]              \* r?
Star(r) == [t |-> "star", r |-> r]             \* r*
Bnd     == [t |-> "bnd"]                       \* \b
Plus(r) == Cat(<<r, Star(r)>>)                 \* r+
Word(w) == Cat([i \in 1..Len(w) |-> Lit(w[i])])  \* a literal word
Ws      == Cls(SpaceSet)                       \* \s
Ws0     == Star(Ws)                            \* \s*
Ws1     == Plus(Ws)                            \* \s+

RECURSIVE Ends(_, _, _)
RECURSIVE CatEnds(_, _, _, _)
RECURSIVE StarEnds(_, _, _)
Ends(r, s, i) ==
    CASE r.t = "lit"  -> IF i <= Len(s) /\ LowerChar(s[i]) = r.c THEN {i + 1} ELSE {}
      [] r.t = "cls"  -> IF i <= Len(s) /\ s[i] \in r.cs THEN {i + 1} ELSE {}
      [] r.t = "bnd"  -> IF WordBoundary(s, i) THEN {i} ELSE {}
      [] r.t = "opt"  -> {i} \cup Ends(r.r, s, i)
      [] r.t = "star" -> StarEnds(r.r, s, {i})
      [] r.t = "alt"  -> UNION {Ends(r.rs[k], s, i) : k \in DOMAIN r.rs}
      [] r.t = "cat"  -> CatEnds(r.rs, 1, s, {i})
CatEnds(rs, k, s, I) ==
    IF k > Len(rs) \/ I = {} THEN I
    ELSE CatEnds(rs, k + 1, s, UNION {Ends(rs[k], s, i) : i \in I})
StarEnds(r, s, I) ==
    LET J == I \cup UNION {Ends(r, s, i) : i \in I}
    IN IF J = I THEN I ELSE StarEnds(r, s, J)

\* rx.search(s) is not None
Search(rx, s) == \E i \in 1..(Len(s) + 1) : Ends(rx, s, i) # {}

(***************************************************************************)
(* COMPLEXITY_REGEX: the detector table, in insertion order                *)
(***************************************************************************)
K_quadratic   == <<"q","u","a","d","r","a","t","i","c">>
K_exponential == <<"e","x","p","o","n","e","n","t","i","a","l">>
K_linear      == <<"l","i","n","e","a","r">>
K_nlogn       == <<"n","l","o","g","n">>
K_vplusE      == <<"v","p","l","u","s","E">>
K_n_k_logk    == <<"n","_","k","_","l","o","g","k">>
K_n_k         == <<"n","_","k">>

StarOrWs == Alt(<<Lit("*"), Ws>>)              \* (?:\*|\s)
CaretOrStar == Cls({"^", "*"})                 \* [\^*]

\* \b(?:o\(?\s*n\s*[\^*]\s*2\)?|n\s*[\^*]\s*2|n\s*\*\s*n)\b
RX_quadratic ==
    Cat(<<Bnd,
          Alt(<<Cat(<<Lit("o"), Opt(Lit("(")), Ws0, Lit("n"), Ws0, CaretOrStar, Ws0, Lit("2"), Opt(Lit(")"))>>),
                Cat(<<Lit("n"), Ws0, CaretOrStar, Ws0, Lit("2")>>),
                Cat(<<Lit("n"), Ws0, Lit("*"), Ws0, Lit("n")>>)>>),
          Bnd>>)

\* \b(?:o\(?\s*2\s*[\^]\s*n\)?|2\s*[\^]\s*n|exponential|2\^n)\b
RX_exponential ==
    Cat(<<Bnd,
          Alt(<<Cat(<<Lit("o"), Opt(Lit("(")), Ws0, Lit("2"), Ws0, Lit("^"), Ws0, Lit("n"), Opt(Lit(")"))>>),
                Cat(<<Lit("2"), Ws0, Lit("^"), Ws0, Lit("n")>>),
                Word(<<"e","x","p","o","n","e","n","t","i","a","l">>),
                Word(<<"2","^","n">>)>>),
          Bnd>>)

\* \b(?:o\(?\s*n\)?|linear(?:\s*time)?)\b
RX_linear ==
    Cat(<<Bnd,
          Alt(<<Cat(<<Lit("o"), Opt(Lit("(")), Ws0, Lit("n"), Opt(Lit(")"))>>),
                Cat(<<Word(<<"l","i","n","e","a","r">>), Opt(Cat(<<Ws0, Word(<<"t","i","m","e">>)>>))>>)>>),
          Bnd>>)

\* \b(?:n\s*(?:\*|\s)?\s*log\s*n|n\s*log\s*n|o\(?\s*n\s*log\s*n\)?)\b
RX_nlogn ==
    Cat(<<Bnd,
          Alt(<<Cat(<<Lit("n"), Ws0, Opt(StarOrWs), Ws0, Word(<<"l","o","g">>), Ws0, Lit("n")>>),
                Cat(<<Lit("n"), Ws0, Word(<<"l","o","g">>), Ws0, Lit("n")>>),
                Cat(<<Lit("o"), Opt(Lit("(")), Ws0, Lit("n"), Ws0, Word(<<"l","o","g">>), Ws0, Lit("n"), Opt(Lit(")"))>>)>>),
          Bnd>>)

\* \b(?:v\s*[\+&]\s*e|v\s*\+\s*e|v\+e|o\(?\s*v\s*\+\s*e\)?)\b
RX_vplusE ==
    Cat(<<Bnd,
          Alt(<<Cat(<<Lit("v"), Ws0, Cls({"+", "&"}), Ws0, Lit("e")>>),
                Cat(<<Lit("v"), Ws0, Lit("+"), Ws0, Lit("e")>>),
                Word(<<"v","+","e">>),
                Cat(<<Lit("o"), Opt(Lit("(")), Ws0, Lit("v"), Ws0, Lit("+"), Ws0, Lit("e"), Opt(Lit(")"))>>)>>),
          Bnd>>)

\* \b(?:n\s*(?:\*|\s)?\s*k\s*(?:\*|\s)?\s*log\s*k|o\(?\s*n\s*\*\s*k\s*log\s*k\)?)\b
RX_n_k_logk ==
    Cat(<<Bnd,
          Alt(<<Cat(<<Lit("n"), Ws0, Opt(StarOrWs), Ws0, Lit("k"), Ws0, Opt(StarOrWs), Ws0,
                      Word(<<"l","o","g">>), Ws0, Lit("k")>>),
                Cat(<<Lit("o"), Opt(Lit("(")), Ws0, Lit("n"), Ws0, Lit("*"), Ws0, Lit("k"), Ws0,
                      Word(<<"l","o","g">>), Ws0, Lit("k"), Opt(Lit(")"))>>)>>),
          Bnd>>)

\* \b(?:n\s*(?:\*|\s)\s*k|n\s+k)\b
RX_n_k ==
    Cat(<<Bnd,
          Alt(<<Cat(<<Lit("n"), Ws0, StarOrWs, Ws0, Lit("k")>>),
                Cat(<<Lit("n"), Ws1, Lit("k")>>)>>),
          Bnd>>)

\* a variant of the table with the log-linear family moved before the linear one
COMPLEXITY_REGEX_nlogn_first ==
    << <<K_quadratic, RX_quadratic>>,
       <<K_exponential, RX_exponential>>,
       <<K_nlogn, RX_nlogn>>,
       <<K_linear, RX_linear>>,
       <<K_vplusE, RX_vplusE>>,
       <<K_n_k_logk, RX_n_k_logk>>,
       <<K_n_k, RX_n_k>> >>

\* dict items in insertion order: (key, compiled pattern)
COMPLEXITY_REGEX ==
    << <<K_quadratic, RX_quadratic>>,
       <<K_exponential, RX_exponential>>,
       <<K_linear, RX_linear>>,
       <<K_nlogn, RX_nlogn>>,
       <<K_vplusE, RX_vplusE>>,
       <<K_n_k_logk, RX_n_k_logk>>,
       <<K_n_k, RX_n_k>> >>

S_regex == <<"r","e","g","e","x">>

\* for k, rx in COMPLEXITY_REGEX.items(): if rx.search(txt): return (k, "regex")
RECURSIVE DetectFrom(_, _)
DetectFrom(txt, i) ==
    IF i > Len(COMPLEXITY_REGEX) THEN None
    ELSE IF Search(COMPLEXITY_REGEX[i][2], txt) THEN <<COMPLEXITY_REGEX[i][1], S_regex>>
    ELSE DetectFrom(txt, i + 1)

_regex_complexity_detect(s) ==
    LET txt == IF Falsy(s) THEN <<>> ELSE s      \* txt = text or ""
    IN DetectFrom(txt, 1)

(***************************************************************************)
(* Phrase tables.  A dict is a function from its keys; a phrase list is a  *)
(* sequence of str.                                                        *)
(***************************************************************************)
C_complexity == <<"c","o","m","p","l","e","x","i","t","y">>
C_off_by_one == <<"o","f","f","_","b","y","_","o","n","e">>
C_missing_base_case == <<"m","i","s","s","i","n","g","_","b","a","s","e","_","c","a","s","e">>
C_edge_case == <<"e","d","g","e","_","c","a","s","e">>
C_inefficient == <<"i","n","e","f","f","i","c","i","e","n","t">>

PEER_INDICATORS ==
    C_complexity :> <<
        <<"o","(","n","^","2",")">>,  \* o(n^2)
        <<"o","(","n","*","n",")">>,  \* o(n*n)
        <<"n","^","2">>,  \* n^2
        <<"n","2">>,  \* n2
        <<"q","u","a","d","r","a","t","i","c">>,  \* quadratic
        <<"o","(","n","^","3",")">>,  \* o(n^3)
        <<"n"," ","l","o","g"," ","n">>,  \* n log n
        <<"o","(","n"," ","l","o","g"," ","n",")">>,  \* o(n log n)
        <<"o","(","n","l","o","g","n",")">>,  \* o(nlogn)
        <<"p","o","l","y","n","o","m","i","a","l">>,  \* polynomial
        <<"o","(","v","*","e",")">>,  \* o(v*e)
        <<"o","(","v","+","e",")">>,  \* o(v+e)
        <<"o","(","n"," ","*"," ","k"," ","l","o","g"," ","k",")">>,  \* o(n * k log k)
        <<"o","(","n","*","k","*","l","o","g"," ","k",")">>,  \* o(n*k*log k)
        <<"o","(","n","*","k"," ","l","o","g"," ","k",")">>,  \* o(n*k log k)
        <<"e","x","p","o","n","e","n","t","i","a","l">>,  \* exponential
        <<"2","^","n">>,  \* 2^n
        <<"o","(","2","^","n",")">>   \* o(2^n)
    >> @@
    C_off_by_one :> <<
        <<"o","f","f","-","b","y","-","o","n","e">>,  \* off-by-one
        <<"o","f","f"," ","b","y"," ","o","n","e">>,  \* off by one
        <<"n","-","1">>,  \* n-1
        <<"n"," ","+"," ","1">>,  \* n + 1
        <<"n","+","1">>,  \* n+1
        <<"i"," ","<","="," ","n">>,  \* i <= n
        <<"i","n","d","e","x"," ","o","u","t"," ","o","f"," ","r","a","n","g","e">>,  \* index out of range
        <<"o","n","e"," ","t","o","o"," ","m","a","n","y">>,  \* one too many
        <<"o","f","f"," ","b","y">>   \* off by
    >> @@
    C_missing_base_case :> <<
        <<"b","a","s","e"," ","c","a","s","e">>,  \* base case
        <<"i","f"," ","n"," ","=","="," ","1">>,  \* if n == 1
        <<"i","f"," ","n"," ","=","="," ","0">>,  \* if n == 0
        <<"n","o"," ","b","a","s","e"," ","c","a","s","e">>,  \* no base case
        <<"m","i","s","s","i","n","g"," ","b","a","s","e">>,  \* missing base
        <<"i","f"," ","n","o","t"," ","l","s","t">>,  \* if not lst
        <<"n","u","l","l"," ","c","h","e","c","k","s">>,  \* null checks
        <<"e","m","p","t","y"," ","l","i","s","t">>,  \* empty list
        <<"e","m","p","t","y"," ","l","i","s","t","s">>,  \* empty lists
        <<"d","o","n","'","t"," ","c","h","e","c","k"," ","e","m","p","t","y">>,  \* don't check empty
        <<"w","o","n","'","t"," ","c","h","e","c","k"," ","e","m","p","t","y">>,  \* won't check empty
        <<"w","o","n","'","t"," ","c","h","e","c","k">>,  \* won't check
        <<"s","k","i","p"," ","e","m","p","t","y">>,  \* skip empty
        <<"f","o","r","g","e","t"," ","b","a","s","e">>,  \* forget base
        <<"m","i","s","s","i","n","g"," ","b","a","s","e"," ","c","a","s","e">>,  \* missing base case
        <<"n","o"," ","b","a","s","e"," ","c","a","s","e">>   \* no base case
    >> @@
    C_edge_case :> <<
        <<"e","d","g","e"," ","c","a","s","e">>,  \* edge case
        <<"h","a","n","d","l","e"," ","e","m","p","t","y">>,  \* handle empty
        <<"h","a","n","d","l","e"," ","n","e","g","a","t","i","v","e">>,  \* handle negative
        <<"w","a","t","c","h"," ","o","u","t"," ","f","o","r"," ","e","m","p","t","y">>,  \* watch out for empty
        <<"c","h","e","c","k"," ","f","o","r"," ","n","o","n","e">>,  \* check for none
        <<"n","e","g","a","t","i","v","e">>,  \* negative
        <<"f","a","i","l","s"," ","w","i","t","h"," ","n","e","g","a","t","i","v","e">>,  \* fails with negative
        <<"e","m","p","t","y">>,  \* empty
        <<"n","u","l","l">>,  \* null
        <<"i","g","n","o","r","i","n","g">>,  \* ignoring
        <<"o","d","d","/","e","v","e","n">>,  \* odd/even
        <<"o","d","d"," ","v","s"," ","e","v","e","n">>,  \* odd vs even
        <<"o","d","d"," ","a","n","d"," ","e","v","e","n">>,  \* odd and even
        <<"o","d","d"," ","e","v","e","n">>,  \* odd even
        <<"o","d","d"," ","v","s"," ","e","v","e","n"," ","l","e","n","g","t","h","s">>,  \* odd vs even lengths
        <<"o","d","d"," ","v","s"," ","e","v","e","n"," ","l","e","n","g","t","h">>   \* odd vs even length
    >> @@
    C_inefficient :> <<
        <<"n","e","s","t","e","d"," ","l","o","o","p">>,  \* nested loop
        <<"n","e","s","t","e","d"," ","l","o","o","p","s">>,  \* nested loops
        <<"p","a","i","r","w","i","s","e">>,  \* pairwise
        <<"c","o","m","p","a","r","e"," ","e","a","c","h"," ","w","i","t","h"," ","e","v","e","r","y"," ","o","t","h","e","r">>,  \* compare each with every other
        <<"p","a","i","r"," ","w","i","s","e">>,  \* pair wise
        <<"i","n","e","f","f","i","c","i","e","n","t">>,  \* inefficient
        <<"n","^","2">>,  \* n^2
        <<"q","u","a","d","r","a","t","i","c">>,  \* quadratic
        <<"o","(","n"," ","l","o","g"," ","n",")">>,  \* o(n log n)
        <<"s","o","r","t","i","n","g"," ","e","a","c","h"," ","s","t","r","i","n","g">>,  \* sorting each string
        <<"s","o","r","t"," ","e","a","c","h"," ","s","t","r","i","n","g">>,  \* sort each string
        <<"s","o","r","t"," ","e","a","c","h">>,  \* sort each
        <<"s","o","r","t","i","n","g"," ","e","a","c","h">>,  \* sorting each
        <<"o","(","n"," ","*"," ","k"," ","l","o","g"," ","k",")">>,  \* o(n * k log k)
        <<"n"," ","*"," ","k"," ","l","o","g"," ","k">>,  \* n * k log k
        <<"n"," ","k"," ","l","o","g"," ","k">>   \* n k log k
    >>

TEACHER_INDICATORS ==
    C_complexity :> <<
        <<"o","(","n",")">>,  \* o(n)
        <<"l","i","n","e","a","r">>,  \* linear
        <<"l","i","n","e","a","r"," ","t","i","m","e">>,  \* linear time
        <<"o","(","2","^","n",")">>,  \* o(2^n)
        <<"2","^","n">>,  \* 2^n
        <<"e","x","p","o","n","e","n","t","i","a","l">>,  \* exponential
        <<"o","(","n"," ","l","o","g"," ","n",")">>,  \* o(n log n)
        <<"o","(","v","+","e",")">>,  \* o(v+e)
        <<"o","(","v"," ","+"," ","e",")">>,  \* o(v + e)
        <<"o","(","n","*","k",")">>,  \* o(n*k)
        <<"o","(","n"," ","*"," ","k",")">>   \* o(n * k)
    >> @@
    C_off_by_one :> <<
        <<"o","f","f","-","b","y","-","o","n","e">>,  \* off-by-one
        <<"o","f","f"," ","b","y"," ","o","n","e">>,  \* off by one
        <<"c","l","a","r","i","f","y"," ","w","h","e","t","h","e","r"," ","n"," ","i","s"," ","1","-","b","a","s","e","d">>,  \* clarify whether n is 1-based
        <<"o","n","e","-","b","a","s","e","d">>,  \* one-based
        <<"z","e","r","o","-","b","a","s","e","d">>,  \* zero-based
        <<"f","i","x"," ","i","n","d","e","x">>,  \* fix index
        <<"u","s","e"," ","<","="," ","v","s"," ","<">>,  \* use <= vs <
        <<"o","f","f"," ","b","y">>   \* off by
    >> @@
    C_missing_base_case :> <<
        <<"b","a","s","e"," ","c","a","s","e">>,  \* base case
        <<"h","a","n","d","l","e"," ","e","m","p","t","y">>,  \* handle empty
        <<"r","e","t","u","r","n"," ","0">>,  \* return 0
        <<"a","d","d"," ","a"," ","b","a","s","e"," ","c","a","s","e">>,  \* add a base case
        <<"c","h","e","c","k"," ","f","o","r"," ","e","m","p","t","y"," ","l","i","s","t">>,  \* check for empty list
        <<"b","a","s","e","-","c","a","s","e"," ","c","h","e","c","k","s">>,  \* base-case checks
        <<"b","a","s","e"," ","c","a","s","e"," ","c","h","e","c","k">>   \* base case check
    >> @@
    C_edge_case :> <<
        <<"e","d","g","e"," ","c","a","s","e">>,  \* edge case
        <<"h","a","n","d","l","e"," ","e","m","p","t","y">>,  \* handle empty
        <<"h","a","n","d","l","e"," ","n","e","g","a","t","i","v","e">>,  \* handle negative
        <<"w","a","t","c","h"," ","o","u","t"," ","f","o","r"," ","e","m","p","t","y">>,  \* watch out for empty
        <<"c","h","e","c","k"," ","f","o","r"," ","n","o","n","e">>,  \* check for none
        <<"n","u","l","l">>,  \* null
        <<"e","m","p","t","y"," ","k","e","y","s">>,  \* empty keys
        <<"f","a","i","l","s"," ","w","i","t","h"," ","n","e","g","a","t","i","v","e">>,  \* fails with negative
        <<"b","e","l","l","m","a","n","-","f","o","r","d">>,  \* bellman-ford
        <<"o","d","d","/","e","v","e","n">>,  \* odd/even
        <<"o","d","d"," ","v","s"," ","e","v","e","n">>,  \* odd vs even
        <<"o","d","d"," ","e","v","e","n">>,  \* odd even
        <<"o","d","d","/","e","v","e","n"," ","s","p","l","i","t","s">>   \* odd/even splits
    >> @@
    C_inefficient :> <<
        <<"o","p","t","i","m","i","z","e">>,  \* optimize
        <<"a","v","o","i","d"," ","n","e","s","t","e","d">>,  \* avoid nested
        <<"t","w","o","-","p","o","i","n","t","e","r">>,  \* two-pointer
        <<"l","i","n","e","a","r"," ","t","i","m","e">>,  \* linear time
        <<"o","(","n",")">>,  \* o(n)
        <<"u","s","e"," ","h","a","s","h","m","a","p">>,  \* use hashmap
        <<"u","s","e"," ","m","e","m","o">>,  \* use memo
        <<"u","s","e"," ","d","p">>,  \* use dp
        <<"i","n","e","f","f","i","c","i","e","n","t">>,  \* inefficient
        <<"o","(","n","*","k",")">>,  \* o(n*k)
        <<"u","s","e"," ","l","e","t","t","e","r"," ","c","o","u","n","t","s">>,  \* use letter counts
        <<"l","e","t","t","e","r"," ","c","o","u","n","t","s">>,  \* letter counts
        <<"c","o","u","n","t"," ","c","h","a","r","a","c","t","e","r","s">>   \* count characters
    >>

\* exceptions, as values that are neither None nor a str nor a tuple of str
KeyError == <<"KeyError">>
TypeError == <<"TypeError">>
IsExc(v) == v = KeyError \/ v = TypeError

\* a variant that indexes the dict, d[k], and raises on a missing key
DictGet_raises(d, k, default) == IF k \in DOMAIN d THEN d[k] ELSE KeyError

\* d.get(k, default)
DictGet(d, k, default) == IF k \in DOMAIN d THEN d[k] ELSE default

FUZZY_SCORE_THRESHOLD == 82
SHORT_PHRASE_FUZZY_THRESHOLD == 88

(***************************************************************************)
(* _lemmatize_tokens                                                       *)
(***************************************************************************)
\* [tok.lemma_.lower() for tok in nlp(text) if not tok.is_space]: the
\* analyzer is an external library; its document is taken to be the
\* whitespace-separated tokens of the raw text, each its own lemma.
AnalyzerLemmas(s) == [i \in 1..Len(Split(s)) |-> Lower(Split(s)[i])]

\* a variant whose fallback splits the raw text
_lemmatize_tokens_raw_split(s) ==
    IF Falsy(s) THEN <<>>
    ELSE IF nlp = "None" THEN Split(s)
    ELSE AnalyzerLemmas(s)

_lemmatize_tokens(s) ==
    IF Falsy(s) THEN <<>>
    ELSE IF nlp = "None" THEN Split(_normalize_keep_paren(s))
    ELSE AnalyzerLemmas(s)

(***************************************************************************)
(* _contains_any_substring                                                 *)
(***************************************************************************)
\* for p in patterns: if p in txt: return p
RECURSIVE FirstContained(_, _, _)
FirstContained(txt, pats, k) ==
    IF k > Len(pats) THEN None
    ELSE IF Contains(txt, pats[k]) THEN pats[k]
    ELSE FirstContained(txt, pats, k + 1)

_contains_any_substring(s, pats) == FirstContained(_normalize_keep_paren(s), pats, 1)

(***************************************************************************)
(* _lemma_token_match                                                      *)
(***************************************************************************)
\* a variant with any() in place of all() in the first loop
RECURSIVE FirstAllTokens_any(_, _, _)
FirstAllTokens_any(token_set, pats, k) ==
    IF k > Len(pats) THEN None
    ELSE IF \E pt \in Range(Split(_normalize_keep_paren(pats[k]))) : pt \in token_set
         THEN pats[k]
    ELSE FirstAllTokens_any(token_set, pats, k + 1)

\* first loop: all(pt in token_set for pt in p_tokens)
RECURSIVE FirstAllTokens(_, _, _)
FirstAllTokens(token_set, pats, k) ==
    IF k > Len(pats) THEN None
    ELSE IF \A pt \in Range(Split(_normalize_keep_paren(pats[k]))) : pt \in token_set
         THEN pats[k]
    ELSE FirstAllTokens(token_set, pats, k + 1)

\* innermost loop: for p in patterns: if _normalize_keep_paren(p) == gram
RECURSIVE FirstEqualGram(_, _, _)
FirstEqualGram(gram, pats, k) ==
    IF k > Len(pats) THEN None
    ELSE IF _normalize_keep_paren(pats[k]) = gram THEN pats[k]
    ELSE FirstEqualGram(gram, pats, k + 1)

\* for n in range(min(5, L), 0, -1): for i in range(0, L - n + 1): ...
RECURSIVE NgramLoop(_, _, _, _)
NgramLoop(tokens, pats, n, i) ==
    IF n < 1 THEN None
    ELSE IF i > Len(tokens) - n THEN NgramLoop(tokens, pats, n - 1, 0)
    ELSE LET gram == Join(SubSeq(tokens, i + 1, i + n))
             p == FirstEqualGram(gram, pats, 1)
         IN IF p # None THEN p ELSE NgramLoop(tokens, pats, n, i + 1)

_lemma_token_match(s, pats) ==
    LET tokens == _lemmatize_tokens(s)
    IN IF tokens = <<>> THEN None
       ELSE LET p == FirstAllTokens(Range(tokens), pats, 1)
            IN IF p # None THEN p
               ELSE NgramLoop(tokens, pats, Min(5, Len(tokens)), 0)

(***************************************************************************)
(* rapidfuzz: fuzz.token_sort_ratio and process.extractOne                 *)
(***************************************************************************)
\* str comparison used by sorted(): lexicographic on code points
RECURSIVE StrLess(_, _)
StrLess(a, b) ==
    IF b = <<>> THEN FALSE
    ELSE IF a = <<>> THEN TRUE
    ELSE IF Ord[Head(a)] # Ord[Head(b)] THEN Ord[Head(a)] < Ord[Head(b)]
    ELSE StrLess(Tail(a), Tail(b))

RECURSIVE Insert(_, _)
Insert(sorted, x) ==
    IF sorted = <<>> THEN <<x>>
    ELSE IF StrLess(x, Head(sorted)) THEN <<x>> \o sorted
    ELSE <<Head(sorted)>> \o Insert(Tail(sorted), x)
RECURSIVE Sorted(_)
Sorted(toks) == IF toks = <<>> THEN <<>> ELSE Insert(Sorted(Tail(toks)), Head(toks))

\* length of the longest common subsequence, row by row; row[j + 1] is the
\* length for the first j characters of b
RECURSIVE LcsRow(_, _, _, _, _)
LcsRow(prev, c, b, j, cur) ==
    IF j > Len(b) THEN cur
    ELSE LET next == Append(cur, IF c = b[j] THEN prev[j] + 1 ELSE Max(prev[j + 1], cur[j]))
         IN IF Len(next) = j + 1 THEN LcsRow(prev, c, b, j + 1, next) ELSE <<>>
RECURSIVE LcsRows(_, _, _, _)
LcsRows(a, b, i, prev) ==
    IF i > Len(a) THEN prev[Len(b) + 1]
    ELSE LET row == LcsRow(prev, a[i], b, 1, <<0>>)
         IN IF Len(row) = Len(b) + 1 THEN LcsRows(a, b, i + 1, row) ELSE 0
Lcs(a, b) == LcsRows(a, b, 1, [j \in 1..(Len(b) + 1) |-> 0])

\* fuzz.ratio: the normalized Indel similarity times 100, kept as the exact
\* fraction <<numerator, denominator>>
Ratio(a, b) ==
    IF Len(a) + Len(b) = 0 THEN <<100, 1>>
    ELSE <<200 * Lcs(a, b), Len(a) + Len(b)>>
ScoreGreater(s, t) == s[1] * t[2] > t[1] * s[2]     \* s > t
ScoreAtLeast(s, n) == s[1] >= n * s[2]              \* s >= n
ScoreInt(s) == s[1] \div s[2]                       \* int(s)
ScoreZero == <<0, 1>>

\* fuzz.token_sort_ratio: ratio of the two strings with their tokens sorted
token_sort_ratio(a, b) == Ratio(Join(Sorted(Split(a))), Join(Sorted(Split(b))))

\* process.extractOne(query, choices, scorer=...): the best choice, the first
\* one among equal scores; None when there is no choice
RECURSIVE ExtractBest(_, _, _, _)
ExtractBest(query, choices, k, best) ==
    IF k > Len(choices) THEN best
    ELSE LET s == token_sort_ratio(query, choices[k])
         IN ExtractBest(query, choices, k + 1,
                        IF ScoreGreater(s, best[2]) THEN <<choices[k], s, k - 1>> ELSE best)
extractOne(query, choices) ==
    IF choices = <<>> THEN None
    ELSE ExtractBest(query, choices, 2, <<choices[1], token_sort_ratio(query, choices[1]), 0>>)

(***************************************************************************)
(* _fuzzy_match                                                            *)
(***************************************************************************)
\* the manual fallback loop of the except branch
RECURSIVE ManualBest(_, _, _, _)
ManualBest(txt, pats, k, best) ==
    IF k > Len(pats) THEN best
    ELSE LET s == token_sort_ratio(txt, pats[k])
         IN ManualBest(txt, pats, k + 1, IF ScoreGreater(s, best[2]) THEN <<pats[k], s>> ELSE best)

\* try: choice, score, _ = process.extractOne(...)   (unpacking None raises)
\* except Exception: the manual loop
BestChoice(txt, pats) ==
    LET one == extractOne(txt, pats)
    IN IF one = None THEN ManualBest(txt, pats, 1, <<None, ScoreZero>>)
       ELSE <<one[1], one[2]>>

\* str(n) for a non-negative int
RECURSIVE IntToStr(_)
IntToStr(n) == IF n < 10 THEN <<Digits[n + 1]>> ELSE IntToStr(n \div 10) \o <<Digits[(n % 10) + 1]>>

\* a variant with the single threshold FUZZY_SCORE_THRESHOLD for every phrase
_fuzzy_match_single_threshold(s, pats) ==
    LET txt == _normalize_keep_paren(s)
    IN IF Falsy(txt) THEN None
       ELSE LET best == BestChoice(txt, pats)
                choice == best[1]
                score == best[2]
            IN IF IsExc(best) THEN best
               ELSE IF Falsy(choice) THEN None
               ELSE IF ScoreAtLeast(score, FUZZY_SCORE_THRESHOLD) THEN <<choice, ScoreInt(score)>>
               ELSE None

_fuzzy_match(s, pats) ==
    LET txt == _normalize_keep_paren(s)
    IN IF Falsy(txt) THEN None
       ELSE LET best == BestChoice(txt, pats)
                choice == best[1]
                score == best[2]
            IN IF IsExc(best) THEN best
               ELSE IF Falsy(choice) THEN None
               ELSE LET short == Len(Split(choice)) <= 2
                        threshold == IF short THEN SHORT_PHRASE_FUZZY_THRESHOLD
                                     ELSE FUZZY_SCORE_THRESHOLD
                    IN IF ScoreAtLeast(score, threshold) THEN <<choice, ScoreInt(score)>>
                       ELSE None

(***************************************************************************)
(* _matches_any                                                            *)
(***************************************************************************)
S_regex_complexity == <<"r","e","g","e","x","_","c","o","m","p","l","e","x","i","t","y">>
S_substr == <<"s","u","b","s","t","r">>
S_lemma == <<"l","e","m","m","a">>
S_fuzzy == <<"f","u","z","z","y",":">>

\* a variant that tries the lemma stage before the substring stage
_matches_any_lemma_first(s, pats) ==
    IF Falsy(s) THEN None
    ELSE LET reg == _regex_complexity_detect(s)
         IN IF reg # None THEN <<reg[1], S_regex_complexity>>
    ELSE LET lm == _lemma_token_match(s, pats)
         IN IF ~Falsy(lm) THEN <<lm, S_lemma>>
    ELSE LET sub == _contains_any_substring(s, pats)
         IN IF ~Falsy(sub) THEN <<sub, S_substr>>
    ELSE LET fm == _fuzzy_match(s, pats)
         IN IF IsExc(fm) THEN fm
            ELSE IF fm # None THEN <<fm[1], S_fuzzy \o IntToStr(fm[2])>>
            ELSE None

\* a variant that consults the phrase list before the complexity detector
_matches_any_phrases_first(s, pats) ==
    IF Falsy(s) THEN None
    ELSE LET sub == _contains_any_substring(s, pats)
         IN IF ~Falsy(sub) THEN <<sub, S_substr>>
    ELSE LET lm == _lemma_token_match(s, pats)
         IN IF ~Falsy(lm) THEN <<lm, S_lemma>>
    ELSE LET fm == _fuzzy_match(s, pats)
         IN IF IsExc(fm) THEN fm
            ELSE IF fm # None THEN <<fm[1], S_fuzzy \o IntToStr(fm[2])>>
    ELSE LET reg == _regex_complexity_detect(s)
         IN IF reg # None THEN <<reg[1], S_regex_complexity>>
            ELSE None

_matches_any(s, pats) ==
    IF Falsy(s) THEN None
    ELSE LET reg == _regex_complexity_detect(s)
         IN IF reg # None THEN <<reg[1], S_regex_complexity>>
    ELSE LET sub == _contains_any_substring(s, pats)
         IN IF ~Falsy(sub) THEN <<sub, S_substr>>
    ELSE LET lm == _lemma_token_match(s, pats)
         IN IF ~Falsy(lm) THEN <<lm, S_lemma>>
    ELSE LET fm == _fuzzy_match(s, pats)
         IN IF IsExc(fm) THEN fm
            ELSE IF fm # None THEN <<fm[1], S_fuzzy \o IntToStr(fm[2])>>
            ELSE None

\* (bool(pm), pm[1], pm[0]): pattern and method in each other's place
Entry_swapped(pm) == IF pm # None THEN <<TRUE, pm[2], pm[1]>> ELSE <<FALSE, None, None>>

(***************************************************************************)
(* score_pair                                                              *)
(***************************************************************************)
\* (bool(pm), pm[0] if pm else None, pm[1] if pm else None)
Entry(pm) == IF pm # None THEN <<TRUE, pm[1], pm[2]>> ELSE <<FALSE, None, None>>

\* a variant with any() in place of all()
OverallPass_any(peer_detected, teacher_fixed, expected) ==
    \E i \in DOMAIN expected : peer_detected[expected[i]][1] /\ teacher_fixed[expected[i]][1]

\* a variant with "or" in place of "and"
OverallPass_or(peer_detected, teacher_fixed, expected) ==
    \A i \in DOMAIN expected : peer_detected[expected[i]][1] \/ teacher_fixed[expected[i]][1]

\* a variant that counts the matched dict entries against len(expected_mistakes)
OverallPass_counted(peer_detected, teacher_fixed, expected) ==
    Cardinality({m \in DOMAIN peer_detected : peer_detected[m][1] /\ teacher_fixed[m][1]})
        = Len(expected)

\* all(peer_detected[m][0] and teacher_fixed[m][0] for m in expected_mistakes)
OverallPass(peer_detected, teacher_fixed, expected) ==
    \A i \in DOMAIN expected : peer_detected[expected[i]][1] /\ teacher_fixed[expected[i]][1]

\* the single element of a one-element set; with a set constructor over
\* pm \in {e} it binds the value of e once, as an assignment in the code does
TheOne(S) == CHOOSE x \in S : TRUE

\* the for loop; acc is <<peer_detected, teacher_fixed>>, or the exception raised
RECURSIVE ScoreLoop(_, _, _, _, _)
ScoreLoop(peer, teacher, expected, i, acc) ==
    IF i > Len(expected) THEN acc
    ELSE LET m == expected[i]
             peer_patterns == DictGet(PEER_INDICATORS, m, <<>>)
             teacher_patterns == DictGet(TEACHER_INDICATORS, m, <<>>)
         IN IF IsExc(peer_patterns) THEN peer_patterns
            ELSE IF IsExc(teacher_patterns) THEN teacher_patterns
            ELSE TheOne({
                     IF IsExc(pm) THEN pm
                     ELSE IF IsExc(tm) THEN tm
                     ELSE TheOne({ ScoreLoop(peer, teacher, expected, i + 1, next) :
                                   next \in {<< (m :> Entry(pm)) @@ acc[1],
                                                (m :> Entry(tm)) @@ acc[2] >>} }) :
                     pm \in {_matches_any(IF Falsy(peer) THEN <<>> ELSE peer, peer_patterns)},
                     tm \in {_matches_any(IF Falsy(teacher) THEN <<>> ELSE teacher, teacher_patterns)} })

\* a variant that matches the teacher lists against the peer text
score_pair_peer_text_twice(peer, teacher, expected) ==
    TheOne({ IF IsExc(acc) THEN [raised |-> acc[1]]
             ELSE [peer_detected |-> acc[1],
                   teacher_fixed |-> acc[2],
                   pass |-> OverallPass(acc[1], acc[2], expected)] :
             acc \in {ScoreLoop(peer, peer, expected, 1, << <<>>, <<>> >>)} })

\* the returned dict, or [raised |-> exception] when the call raises
score_pair(peer, teacher, expected) ==
    TheOne({ IF IsExc(acc) THEN [raised |-> acc[1]]
             ELSE [peer_detected |-> acc[1],
                   teacher_fixed |-> acc[2],
                   pass |-> OverallPass(acc[1], acc[2], expected)] :
             acc \in {ScoreLoop(peer, teacher, expected, 1, << <<>>, <<>> >>)} })

(***************************************************************************)
(* Bounded inputs                                                          *)
(***************************************************************************)
RECURSIVE StrsOfLen(_, _)
StrsOfLen(A, n) ==
    IF n = 0 THEN {<<>>}
    ELSE {Append(s, c) : s \in StrsOfLen(A, n - 1), c \in A}
StrsUpTo(A, n) == UNION {StrsOfLen(A, k) : k \in 0..n}

MaxNormLen == 4
NormAlphabet == {" ", "/", "_", "v", "S", "(", "."}
NormInputs == StrsUpTo(NormAlphabet, MaxNormLen) \cup {None}

\* texts for the complexity detector: up to MaxDetectFrags fragments joined
\* by single spaces; a fragment is a representative literal of a notation
\* family or a word of prose
MaxDetectFrags == 2
Representative ==
    << <<<<"O","(","n","^","2",")">>, K_quadratic>>,     <<<<"n","*","n">>, K_quadratic>>,
       <<<<"O","(","2","^","n",")">>, K_exponential>>,   <<<<"2","^","n">>, K_exponential>>,
       <<<<"O","(","n",")">>, K_linear>>,
       <<<<"O","(","n"," ","l","o","g"," ","n",")">>, K_nlogn>>,     <<<<"n"," ","l","o","g"," ","n">>, K_nlogn>>,
       <<<<"O","(","V","+","E",")">>, K_vplusE>>,        <<<<"V","+","E">>, K_vplusE>>,
       <<<<"n","*","k","*","l","o","g"," ","k">>, K_n_k_logk>>,
       <<<<"n","*","k">>, K_n_k>> >>
ProseWords == {<<"B","F","S">>, <<"i","s">>, <<"s","o","r","t">>}
DetectFrags == {Representative[i][1] : i \in DOMAIN Representative} \cup ProseWords

RECURSIVE SeqsOfLen(_, _)
SeqsOfLen(A, n) ==
    IF n = 0 THEN {<<>>}
    ELSE {Append(s, c) : s \in SeqsOfLen(A, n - 1), c \in A}
SeqsUpTo(A, n) == UNION {SeqsOfLen(A, k) : k \in 0..n}

DetectTexts == {Join(ws) : ws \in SeqsUpTo(DetectFrags, MaxDetectFrags)} \cup {None}

\* phrase lists a caller can pass: every list of the two tables, and the
\* empty list of a category that is in neither table
PhraseLists ==
    {PEER_INDICATORS[c] : c \in DOMAIN PEER_INDICATORS}
        \cup {TEACHER_INDICATORS[c] : c \in DOMAIN TEACHER_INDICATORS} \cup {<<>>}

\* texts for the matching pipeline: up to MaxMatchFrags fragments joined by
\* single spaces, and the absent text
MaxMatchFrags == 1
MatchFrags ==
    { <<"O","(","n",")">>,                  \* a complexity notation
      <<"b","a","s","e"," ","c","a","s","e">>,             \* a phrase, verbatim
      <<"l","i","s","t"," ","e","m","p","t","y">>,            \* the words of a phrase in another order
      <<"d","o","n","'","t"," ","c","h","e","c","k"," ","e","m","p","t","y">>,     \* a phrase with an apostrophe, verbatim
      <<"o","n","e"," ","t","o"," ","m","e","n","y">>,           \* misspelt three-word phrase
      <<"u","z","e"," ","m","e","m","o">>,              \* misspelt two-word phrases
      <<"p","a","i","r"," ","w","i","z","e">>,
      <<"h","e","l","l","o">> }                \* prose
MatchTexts == {Join(ws) : ws \in SeqsUpTo(MatchFrags, MaxMatchFrags)} \cup {None}

\* arguments of score_pair
MaxExpected == 2
C_nonexistent_category == <<"n","o","n","e","x","i","s","t","e","n","t","_","c","a","t","e","g","o","r","y">>
ScoreCategories == {C_complexity, C_missing_base_case, C_edge_case, C_nonexistent_category}
ScoreTexts == {None, <<>>, <<"O","(","n","^","2",")">>, <<"b","a","s","e"," ","c","a","s","e">>, <<"h","e","l","l","o">>}

\* texts that are near a phrase without containing it: "list empty" holds the
\* tokens of "empty list", "one to meny" is close to "one too many"
MaxNearExpected == 2
NearCategories == {C_missing_base_case, C_off_by_one, C_nonexistent_category}
NearTexts == {<<"O","(","n",")">>,
              <<"b","a","s","e"," ","c","a","s","e">>,
              <<"l","i","s","t"," ","e","m","p","t","y">>,
              <<"o","n","e"," ","t","o"," ","m","e","n","y">>}

(***************************************************************************)
(* score_pair called from several threads without a lock.  A frame holds   *)
(* the locals of one call; a step of a thread is one pass of the for loop, *)
(* which reads the module-level tables.                                    *)
(***************************************************************************)
Threads == {"t1", "t2"}

\* the tables as the module body leaves them
ModuleTables ==
    [PEER_INDICATORS |-> PEER_INDICATORS,
     TEACHER_INDICATORS |-> TEACHER_INDICATORS,
     COMPLEXITY_REGEX |-> COMPLEXITY_REGEX]

\* arguments of the concurrent calls
MaxConcExpected == 1
ConcTexts == {<<"O","(","n","^","2",")">>, <<"b","a","s","e"," ","c","a","s","e">>}
ConcCategories == {C_missing_base_case, C_nonexistent_category}

NoFrame ==
    [at |-> "idle", peer |-> None, teacher |-> None, expected |-> <<>>, i |-> 0,
     peer_detected |-> <<>>, teacher_fixed |-> <<>>, result |-> None]

\* peer_detected = {} ; teacher_fixed = {} ; the for loop is entered
NewFrame(peer, teacher, expected) ==
    [at |-> "loop", peer |-> peer, teacher |-> teacher, expected |-> expected, i |-> 1,
     peer_detected |-> <<>>, teacher_fixed |-> <<>>, result |-> None]

\* a variant in which the two dicts are module-level objects that every
\* call writes to
LoopPass_shared_dicts(cs, t, tabs) ==
    LET f == cs[t]
        m == f.expected[f.i]
    IN TheOne({
           [u \in DOMAIN cs |->
               IF u = t
               THEN [cs[u] EXCEPT !.i = @ + 1,
                                  !.peer_detected = (m :> Entry(pm)) @@ @,
                                  !.teacher_fixed = (m :> Entry(tm)) @@ @]
               ELSE IF cs[u].at = "loop"
               THEN [cs[u] EXCEPT !.peer_detected = (m :> Entry(pm)) @@ @,
                                  !.teacher_fixed = (m :> Entry(tm)) @@ @]
               ELSE cs[u]] :
           pm \in {_matches_any(IF Falsy(f.peer) THEN <<>> ELSE f.peer,
                                DictGet(tabs.PEER_INDICATORS, m, <<>>))},
           tm \in {_matches_any(IF Falsy(f.teacher) THEN <<>> ELSE f.teacher,
                                DictGet(tabs.TEACHER_INDICATORS, m, <<>>))} })

\* one pass of the for loop in thread t: the frames after it
LoopPass(cs, t, tabs) ==
    LET f == cs[t]
        m == f.expected[f.i]
    IN TheOne({
           [cs EXCEPT ![t] = [f EXCEPT !.i = @ + 1,
                                       !.peer_detected = (m :> Entry(pm)) @@ @,
                                       !.teacher_fixed = (m :> Entry(tm)) @@ @]] :
           pm \in {_matches_any(IF Falsy(f.peer) THEN <<>> ELSE f.peer,
                                DictGet(tabs.PEER_INDICATORS, m, <<>>))},
           tm \in {_matches_any(IF Falsy(f.teacher) THEN <<>> ELSE f.teacher,
                                DictGet(tabs.TEACHER_INDICATORS, m, <<>>))} })

\* overall_pass and the returned dict
LoopExit(f) ==
    [f EXCEPT !.at = "done",
              !.result = [peer_detected |-> f.peer_detected,
                          teacher_fixed |-> f.teacher_fixed,
                          pass |-> OverallPass(f.peer_detected, f.teacher_fixed, f.expected)]]

(***************************************************************************)
(* Sessions: orchestrator.run_session and the routes of app.py.  A turn    *)
(* keeps the fields that identify it; its content and timestamp are text   *)
(* that no branch reads.  A dict is a function from its keys; uuid4 gives  *)
(* an id that is not in use.                                               *)
(***************************************************************************)
Sids == {"s1", "s2"}
Workers == {"w1", "w2"}
MaxSteps == 2

Turn(sid, turn_id, agent, role) ==
    [session_id |-> sid, turn_id |-> turn_id, agent |-> agent, role |-> role]

\* run_session: the five transcript.append calls, in program order; the
\* branches on simulate and on client.available() choose the content only
run_session(sid, simulate, available) ==
    LET t1 == Append(<<>>, Turn(sid, 1, "QuestionAgent", "question"))
        t2 == Append(t1, Turn(sid, 2, "PeerAgent", "peer_attempt"))
        t3 == Append(t2, Turn(sid, 3, "Learner", "learner_input"))
        t4 == Append(t3, Turn(sid, 4, "TeacherAgent", "teacher_reply"))
        t5 == Append(t4, Turn(sid, 5, "SummaryAgent", "summary"))
    IN t5

\* a variant that stops before the summary turn
SimulatedTranscript_no_summary(sid, simulate) ==
    IF simulate
    THEN << Turn(sid, 1, "QuestionAgent", "question"),
            Turn(sid, 2, "PeerAgent", "peer_attempt"),
            Turn(sid, 3, "Learner", "learner_input"),
            Turn(sid, 4, "TeacherAgent", "teacher_reply") >>
    ELSE <<>>

\* start_session: transcript = [] ; if req.simulate: transcript = [...]
SimulatedTranscript(sid, simulate) ==
    IF simulate
    THEN << Turn(sid, 1, "QuestionAgent", "question"),
            Turn(sid, 2, "PeerAgent", "peer_attempt"),
            Turn(sid, 3, "Learner", "learner_input"),
            Turn(sid, 4, "TeacherAgent", "teacher_reply"),
            Turn(sid, 5, "SummaryAgent", "summary") >>
    ELSE <<>>

\* the turns that step requests have added to a transcript
StepTurns(turns) ==
    IF turns # <<>> /\ turns[1].role = "question" THEN Len(turns) - 5 ELSE Len(turns)

NoRequest ==
    [at |-> "idle", route |-> "", sid |-> "", simulate |-> FALSE, new_turn_id |-> 0,
     status |-> 0, transcript |-> <<>>]

\* the frame of a request whose handler has returned or raised
Responded(route, sid, simulate, status, transcript) ==
    [at |-> "responded", route |-> route, sid |-> sid, simulate |-> simulate,
     new_turn_id |-> 0, status |-> status, transcript |-> transcript]

(***************************************************************************)
(* SessionStore                                                            *)
(***************************************************************************)
\* the arguments the callers pass: two session ids, one meta dict, and two
\* transcripts, each written as the list of its turn ids
MaxStoreOps == 3
StoreIds == {"s1", "s2"}
Metas == {"meta"}
Transcripts == {<<1>>, <<1, 2>>}
StoreOps == {"create_session", "set_transcript", "get_transcript", "exists"}
Mutating == {"create_session", "set_transcript"}

\* a with-block that is entered without waiting for the lock
LockAvailable_not_awaited(t) == TRUE

\* with self._lock: the with-block is entered when no thread holds the lock
LockAvailable(t) == _lock = "free"

\* self._store[session_id] = {"meta": meta, "transcript": None}
NewRecord(meta) == [meta |-> meta, transcript |-> None]
DictSet(d, k, v) == (k :> v) @@ d

\* self._store.get(session_id, {}).get("transcript")
GetTranscript(store, session_id) ==
    IF session_id \in DOMAIN store THEN store[session_id].transcript ELSE None

\* the frame of a thread that is not inside a SessionStore method
NoStoreCall ==
    [at |-> "idle", op |-> "none", session_id |-> None, arg |-> None, result |-> None]

\* the frame of a thread that has called op and waits at `with self._lock`
StoreCall(op, session_id, arg) ==
    [at |-> "acquire", op |-> op, session_id |-> session_id, arg |-> arg, result |-> None]

\* the arguments a call of op takes besides the session id
ArgsOf(op) ==
    IF op = "create_session" THEN Metas
    ELSE IF op = "set_transcript" THEN Transcripts
    ELSE {None}

(***************************************************************************)
(* Calls                                                                   *)
(***************************************************************************)
Init ==
    /\ pc = "idle"
    /\ nlp \in {"None", "loaded"}
    /\ text = None
    /\ patterns = <<>>
    /\ peer_text = None
    /\ teacher_text = None
    /\ expected_mistakes = <<>>
    /\ ret = None
    /\ tables = ModuleTables
    /\ calls = [t \in Threads |-> NoFrame]
    /\ run_args = None
    /\ SESSION_STORE = <<>>
    /\ reqs = [w \in Workers |-> NoRequest]
    /\ _store = <<>>
    /\ _lock = "free"
    /\ store_calls = [t \in Threads |-> NoStoreCall]
    /\ store_log = <<>>

\* a call of _normalize_keep_paren(s)
Call_normalize ==
    /\ pc = "idle"
    /\ \E s \in NormInputs :
        /\ text' = s
        /\ ret' = _normalize_keep_paren(s)
    /\ pc' = "normalize"
    /\ UNCHANGED <<nlp, patterns, peer_text, teacher_text, expected_mistakes>>
    /\ UNCHANGED serviceVars

\* a call of _regex_complexity_detect(s)
Call_detect ==
    /\ pc = "idle"
    /\ \E s \in DetectTexts :
        /\ text' = s
        /\ ret' = _regex_complexity_detect(s)
    /\ pc' = "detect"
    /\ UNCHANGED <<nlp, patterns, peer_text, teacher_text, expected_mistakes>>
    /\ UNCHANGED serviceVars

\* a call of _matches_any(s, pats)
Call_matches_any ==
    /\ pc = "idle"
    /\ \E s \in MatchTexts, pats \in PhraseLists :
        /\ text' = s
        /\ patterns' = pats
        /\ ret' = _matches_any(s, pats)
    /\ pc' = "matches_any"
    /\ UNCHANGED <<nlp, peer_text, teacher_text, expected_mistakes>>
    /\ UNCHANGED serviceVars

\* a call of _fuzzy_match(s, pats)
Call_fuzzy_match ==
    /\ pc = "idle"
    /\ \E s \in MatchTexts, pats \in PhraseLists :
        /\ text' = s
        /\ patterns' = pats
        /\ ret' = _fuzzy_match(s, pats)
    /\ pc' = "fuzzy_match"
    /\ UNCHANGED <<nlp, peer_text, teacher_text, expected_mistakes>>
    /\ UNCHANGED serviceVars

\* a call of score_pair(peer, teacher, expected)
Call_score_pair ==
    /\ pc = "idle"
    /\ \E peer \in ScoreTexts, teacher \in ScoreTexts,
          expected \in SeqsUpTo(ScoreCategories, MaxExpected) :
        /\ peer_text' = peer
        /\ teacher_text' = teacher
        /\ expected_mistakes' = expected
        /\ ret' = score_pair(peer, teacher, expected)
    /\ pc' = "score_pair"
    /\ UNCHANGED <<nlp, text, patterns>>
    /\ UNCHANGED serviceVars

\* a call of score_pair(peer, teacher, expected) on texts near a phrase
Call_score_pair_near ==
    /\ pc = "idle"
    /\ \E peer \in NearTexts, teacher \in NearTexts,
          expected \in SeqsUpTo(NearCategories, MaxNearExpected) :
        /\ peer_text' = peer
        /\ teacher_text' = teacher
        /\ expected_mistakes' = expected
        /\ ret' = score_pair(peer, teacher, expected)
    /\ pc' = "score_pair"
    /\ UNCHANGED <<nlp, text, patterns>>
    /\ UNCHANGED serviceVars

\* the caller drops the result; the module is ready for the next call
Return ==
    /\ pc # "idle"
    /\ pc' = "idle"
    /\ text' = None
    /\ patterns' = <<>>
    /\ peer_text' = None
    /\ teacher_text' = None
    /\ expected_mistakes' = <<>>
    /\ ret' = None
    /\ UNCHANGED nlp
    /\ UNCHANGED serviceVars

\* a call of _lemmatize_tokens(s)
Call_lemmatize_tokens ==
    /\ pc = "idle"
    /\ \E s \in MatchTexts :
        /\ text' = s
        /\ ret' = _lemmatize_tokens(s)
    /\ pc' = "lemmatize_tokens"
    /\ UNCHANGED <<nlp, patterns, peer_text, teacher_text, expected_mistakes>>
    /\ UNCHANGED serviceVars

\* a call of _contains_any_substring(s, pats)
Call_contains_any_substring ==
    /\ pc = "idle"
    /\ \E s \in MatchTexts, pats \in PhraseLists :
        /\ text' = s
        /\ patterns' = pats
        /\ ret' = _contains_any_substring(s, pats)
    /\ pc' = "contains_any_substring"
    /\ UNCHANGED <<nlp, peer_text, teacher_text, expected_mistakes>>
    /\ UNCHANGED serviceVars

\* a call of _lemma_token_match(s, pats)
Call_lemma_token_match ==
    /\ pc = "idle"
    /\ \E s \in MatchTexts, pats \in PhraseLists :
        /\ text' = s
        /\ patterns' = pats
        /\ ret' = _lemma_token_match(s, pats)
    /\ pc' = "lemma_token_match"
    /\ UNCHANGED <<nlp, peer_text, teacher_text, expected_mistakes>>
    /\ UNCHANGED serviceVars

\* a call of run_session(simulate=..., ...) with or without a usable client
Call_run_session ==
    /\ pc = "idle"
    /\ \E sid \in Sids, simulate \in BOOLEAN, available \in BOOLEAN :
        /\ run_args' = [session_id |-> sid, simulate |-> simulate, available |-> available]
        /\ ret' = run_session(sid, simulate, available)
    /\ pc' = "run_session"
    /\ UNCHANGED <<nlp, text, patterns, peer_text, teacher_text, expected_mistakes>>
    /\ UNCHANGED <<tables, calls, SESSION_STORE, reqs, storeVars>>

\* the caller of run_session drops the transcript
Return_run_session ==
    /\ pc = "run_session"
    /\ pc' = "idle"
    /\ ret' = None
    /\ run_args' = None
    /\ UNCHANGED <<nlp, text, patterns, peer_text, teacher_text, expected_mistakes>>
    /\ UNCHANGED <<tables, calls, SESSION_STORE, reqs, storeVars>>

\* POST /start_session, the whole handler: the only shared access is the
\* store of the new list under the new id
start_session(w) ==
    /\ reqs[w].at = "idle"
    /\ \E sid \in Sids \ DOMAIN SESSION_STORE, simulate \in BOOLEAN :
        LET transcript == SimulatedTranscript(sid, simulate)
        IN /\ SESSION_STORE' = (sid :> transcript) @@ SESSION_STORE
           /\ reqs' = [reqs EXCEPT ![w] =
                           Responded("start_session", sid, simulate, 200, transcript)]
    /\ UNCHANGED <<nlp, tables, calls, run_args>>
    /\ UNCHANGED <<callVars, storeVars>>

\* POST /session/{sid}/step, up to new_turn_id = len(turns) + 1; turns is
\* the list object held by the store
step_session_read(w) ==
    /\ reqs[w].at = "idle"
    /\ \E sid \in Sids :
        IF sid \notin DOMAIN SESSION_STORE
        THEN reqs' = [reqs EXCEPT ![w] = Responded("step_session", sid, FALSE, 404, <<>>)]
        ELSE /\ StepTurns(SESSION_STORE[sid]) < MaxSteps
             /\ reqs' = [reqs EXCEPT ![w] =
                            [at |-> "append", route |-> "step_session", sid |-> sid,
                             simulate |-> FALSE,
                             new_turn_id |-> Len(SESSION_STORE[sid]) + 1,
                             status |-> 0, transcript |-> <<>>]]
    /\ UNCHANGED <<nlp, tables, calls, run_args, SESSION_STORE>>
    /\ UNCHANGED <<callVars, storeVars>>

\* the rest of the handler: turns.append(...), SESSION_STORE[sid] = turns
step_session_append(w) ==
    /\ reqs[w].at = "append"
    /\ LET sid == reqs[w].sid
           turns == Append(SESSION_STORE[sid],
                           Turn(sid, reqs[w].new_turn_id, "TeacherAgent", "teacher_reply"))
       IN /\ SESSION_STORE' = [SESSION_STORE EXCEPT ![sid] = turns]
          /\ reqs' = [reqs EXCEPT ![w] = Responded("step_session", sid, FALSE, 200, turns)]
    /\ UNCHANGED <<nlp, tables, calls, run_args>>
    /\ UNCHANGED <<callVars, storeVars>>

\* the response has been sent; the worker takes the next request
respond(w) ==
    /\ reqs[w].at = "responded"
    /\ reqs' = [reqs EXCEPT ![w] = NoRequest]
    /\ UNCHANGED <<nlp, tables, calls, run_args, SESSION_STORE>>
    /\ UNCHANGED <<callVars, storeVars>>

\* thread t calls score_pair(peer, teacher, expected)
Thread_call(t) ==
    /\ calls[t].at = "idle"
    /\ \E peer \in ConcTexts, teacher \in ConcTexts,
          expected \in SeqsUpTo(ConcCategories, MaxConcExpected) :
        calls' = [calls EXCEPT ![t] = NewFrame(peer, teacher, expected)]
    /\ UNCHANGED <<nlp, tables>>
    /\ UNCHANGED <<callVars, httpVars, storeVars>>

\* thread t runs the loop body for the next expected mistake
Thread_loop(t) ==
    /\ calls[t].at = "loop"
    /\ calls[t].i <= Len(calls[t].expected)
    /\ calls' = LoopPass(calls, t, tables)
    /\ UNCHANGED <<nlp, tables>>
    /\ UNCHANGED <<callVars, httpVars, storeVars>>

\* thread t leaves the loop and returns the dict
Thread_return(t) ==
    /\ calls[t].at = "loop"
    /\ calls[t].i > Len(calls[t].expected)
    /\ calls' = [calls EXCEPT ![t] = LoopExit(calls[t])]
    /\ UNCHANGED <<nlp, tables>>
    /\ UNCHANGED <<callVars, httpVars, storeVars>>

\* the caller in thread t has taken the result
Thread_done(t) ==
    /\ calls[t].at = "done"
    /\ calls' = [calls EXCEPT ![t] = NoFrame]
    /\ UNCHANGED <<nlp, tables>>
    /\ UNCHANGED <<callVars, httpVars, storeVars>>

NextNormalize == Call_normalize \/ Return
SpecNormalize == Init /\ [][NextNormalize]_vars

NextDetect == Call_detect \/ Return
SpecDetect == Init /\ [][NextDetect]_vars

NextMatch == Call_matches_any \/ Call_fuzzy_match \/ Return
SpecMatch == Init /\ [][NextMatch]_vars

\* thread t calls a SessionStore method and reaches its with-statement
Store_call(t) ==
    /\ store_calls[t].at = "idle"
    /\ \E op \in StoreOps, session_id \in StoreIds :
        \E arg \in ArgsOf(op) :
          /\ op \in Mutating =>
                Len(store_log) + Cardinality({u \in Threads :
                    store_calls[u].at = "acquire" /\ store_calls[u].op \in Mutating})
                  < MaxStoreOps
          /\ store_calls' = [store_calls EXCEPT ![t] = StoreCall(op, session_id, arg)]
    /\ UNCHANGED <<_store, _lock, store_log>>
    /\ UNCHANGED <<nlp, tables, calls, callVars, httpVars>>

\* with self._lock: t takes the lock and enters the block
Store_acquire(t) ==
    /\ store_calls[t].at = "acquire"
    /\ LockAvailable(t)
    /\ _lock' = t
    /\ store_calls' = [store_calls EXCEPT ![t].at = store_calls[t].op]
    /\ store_log' = IF store_calls[t].op \in Mutating
                       THEN Append(store_log, [op |-> store_calls[t].op,
                                               session_id |-> store_calls[t].session_id,
                                               arg |-> store_calls[t].arg])
                       ELSE store_log
    /\ UNCHANGED _store
    /\ UNCHANGED <<nlp, tables, calls, callVars, httpVars>>

\* self._store[session_id] = {"meta": meta, "transcript": None}
create_session(t) ==
    /\ store_calls[t].at = "create_session"
    /\ _store' = DictSet(_store, store_calls[t].session_id, NewRecord(store_calls[t].arg))
    /\ store_calls' = [store_calls EXCEPT ![t].at = "release"]
    /\ UNCHANGED <<_lock, store_log>>
    /\ UNCHANGED <<nlp, tables, calls, callVars, httpVars>>

\* if session_id in self._store:
set_transcript_test(t) ==
    /\ store_calls[t].at = "set_transcript"
    /\ store_calls' = [store_calls EXCEPT ![t].at =
                          IF store_calls[t].session_id \in DOMAIN _store
                              THEN "set_transcript_assign" ELSE "release"]
    /\ UNCHANGED <<_store, _lock, store_log>>
    /\ UNCHANGED <<nlp, tables, calls, callVars, httpVars>>

\* self._store[session_id]["transcript"] = transcript
set_transcript_assign(t) ==
    /\ store_calls[t].at = "set_transcript_assign"
    /\ _store' = [_store EXCEPT ![store_calls[t].session_id].transcript = store_calls[t].arg]
    /\ store_calls' = [store_calls EXCEPT ![t].at = "release"]
    /\ UNCHANGED <<_lock, store_log>>
    /\ UNCHANGED <<nlp, tables, calls, callVars, httpVars>>

\* return self._store.get(session_id, {}).get("transcript")
get_transcript(t) ==
    /\ store_calls[t].at = "get_transcript"
    /\ store_calls' = [store_calls EXCEPT ![t].at = "release",
                                          ![t].result = GetTranscript(_store, store_calls[t].session_id)]
    /\ UNCHANGED <<_store, _lock, store_log>>
    /\ UNCHANGED <<nlp, tables, calls, callVars, httpVars>>

\* return session_id in self._store
exists(t) ==
    /\ store_calls[t].at = "exists"
    /\ store_calls' = [store_calls EXCEPT ![t].at = "release",
                                          ![t].result = (store_calls[t].session_id \in DOMAIN _store)]
    /\ UNCHANGED <<_store, _lock, store_log>>
    /\ UNCHANGED <<nlp, tables, calls, callVars, httpVars>>

\* the with-block is left: the lock is released and the method returns
Store_release(t) ==
    /\ store_calls[t].at = "release"
    /\ _lock' = "free"
    /\ store_calls' = [store_calls EXCEPT ![t] = NoStoreCall]
    /\ UNCHANGED <<_store, store_log>>
    /\ UNCHANGED <<nlp, tables, calls, callVars, httpVars>>

NextStore ==
    \E t \in Threads :
        \/ Store_call(t) \/ Store_acquire(t) \/ create_session(t)
        \/ set_transcript_test(t) \/ set_transcript_assign(t)
        \/ get_transcript(t) \/ exists(t) \/ Store_release(t)
SpecStore == Init /\ [][NextStore]_vars

NextScore == Call_score_pair \/ Return
SpecScore == Init /\ [][NextScore]_vars

NextEntries == Call_score_pair_near \/ Return
SpecEntries == Init /\ [][NextEntries]_vars

NextStages == Call_lemmatize_tokens \/ Call_contains_any_substring
                  \/ Call_lemma_token_match \/ Return
SpecStages == Init /\ [][NextStages]_vars

NextStart ==
    \/ Call_run_session
    \/ Return_run_session
    \/ \E w \in Workers : start_session(w) \/ respond(w)
SpecStart == Init /\ [][NextStart]_vars

NextSessions ==
    \E w \in Workers :
        \/ start_session(w)
        \/ step_session_read(w)
        \/ step_session_append(w)
        \/ respond(w)
SpecSessions == Init /\ [][NextSessions]_vars

NextThreads ==
    \E t \in Threads : Thread_call(t) \/ Thread_loop(t) \/ Thread_return(t) \/ Thread_done(t)
SpecThreads == Init /\ [][NextThreads]_vars

Next == Call_normalize \/ Call_detect \/ Call_matches_any \/ Call_fuzzy_match
            \/ Call_score_pair \/ Call_score_pair_near \/ Return \/ NextThreads
            \/ Call_lemmatize_tokens \/ Call_contains_any_substring \/ Call_lemma_token_match
            \/ NextStart \/ NextSessions \/ NextStore
Spec == Init /\ [][Next]_vars

(***************************************************************************)
(* The normalizer                                                          *)
(***************************************************************************)
\* C10: normalize is idempotent: normalising the output of normalize again
\* gives the same string.
C10_NormalizeIdempotent ==
    pc = "normalize" => _normalize_keep_paren(ret) = ret

\* C16: the output of normalize has only lower-case letters, digits, spaces
\* and ^ * ( ) + - (so no slash), no space at either end and no two spaces
\* in a row; it is the empty string for an empty or absent input; and
\* normalize always returns a string.
C16_NormalizeOutputAlphabet ==
    pc = "normalize" =>
        /\ ret \in Seq(LowerSet \cup DigitSet \cup {" ", "^", "*", "(", ")", "+", "-"})
        /\ ret # <<>> => (ret[1] # " " /\ ret[Len(ret)] # " ")
        /\ \A i \in 1..(Len(ret) - 1) : ~(ret[i] = " " /\ ret[i + 1] = " ")
        /\ Falsy(text) => ret = <<>>

\* a slash between two letters has become the single space between them
C16_Witness ==
    /\ pc = "normalize"
    /\ text = <<"v","/","S">>
    /\ ret = <<"v"," ","s">>

(***************************************************************************)
(* The numeric-notation detector                                           *)
(***************************************************************************)
\* the family order the detector is specified to follow
FamilyOrder == <<K_quadratic, K_exponential, K_linear, K_nlogn, K_vplusE, K_n_k_logk, K_n_k>>
\* the compiled pattern stored under a family key
PatternOf(k) == COMPLEXITY_REGEX[CHOOSE i \in DOMAIN COMPLEXITY_REGEX : COMPLEXITY_REGEX[i][1] = k][2]
\* the families, as positions of FamilyOrder, whose pattern matches s
Matching(s) == {i \in DOMAIN FamilyOrder : Search(PatternOf(FamilyOrder[i]), s)}
SetMin(S) == CHOOSE m \in S : \A n \in S : m <= n

\* C4: the detector returns the first family, in the order quadratic,
\* exponential, linear, nlogn, vplusE, n_k_logk, n_k, whose pattern matches
\* the raw text, and nothing when no pattern matches.
C4_FirstFamilyInOrder ==
    pc = "detect" =>
        LET s == IF Falsy(text) THEN <<>> ELSE text
        IN IF Matching(s) = {} THEN ret = None
           ELSE ret = <<FamilyOrder[SetMin(Matching(s))], S_regex>>

\* a text with both n^2 and n log n has been detected as quadratic
C4_Witness ==
    /\ pc = "detect"
    /\ text = <<"O","(","n","^","2",")"," ","n"," ","l","o","g"," ","n">>
    /\ ret = <<K_quadratic, S_regex>>

\* texts made of one representative literal inside prose
ProseSeqs == SeqsUpTo(ProseWords, MaxDetectFrags - 1)
InProse(lit) ==
    {Join(pre \o <<lit>> \o post) : pre \in ProseSeqs, post \in ProseSeqs}

\* C5: a text whose only complexity notation is the representative literal of
\* a family is detected as that family, whatever prose surrounds it.
C5_LiteralDetectedAsItsFamily ==
    pc = "detect" =>
        \A i \in DOMAIN Representative :
            text \in InProse(Representative[i][1]) => ret = <<Representative[i][2], S_regex>>


(***************************************************************************)
(* The category pipeline                                                   *)
(***************************************************************************)
\* the four stages, run on their own on the arguments of the last call
StageRegex  == _regex_complexity_detect(text) # None
StageSubstr == ~Falsy(_contains_any_substring(text, patterns))
StageLemma  == ~Falsy(_lemma_token_match(text, patterns))
StageFuzzy  == _fuzzy_match(text, patterns) # None
IsFuzzyMethod(m) == Len(m) > Len(S_fuzzy) /\ SubSeq(m, 1, Len(S_fuzzy)) = S_fuzzy

\* C2: on a non-empty text the stages are tried in the order detector,
\* substring, lemma, fuzzy and the first hit decides the method: a stage's
\* method is reported exactly when that stage hits and every earlier one
\* misses, and no match exactly when all four miss.
C2_FirstStageWins ==
    (pc = "matches_any" /\ ~Falsy(text)) =>
        \E rx \in {StageRegex}, sub \in {StageSubstr}, lem \in {StageLemma}, fz \in {StageFuzzy} :
            /\ (ret # None /\ ret[2] = S_regex_complexity) <=> rx
            /\ (ret # None /\ ret[2] = S_substr) <=> (~rx /\ sub)
            /\ (ret # None /\ ret[2] = S_lemma) <=> (~rx /\ ~sub /\ lem)
            /\ (ret # None /\ IsFuzzyMethod(ret[2])) <=> (~rx /\ ~sub /\ ~lem /\ fz)
            /\ (ret = None) <=> (~rx /\ ~sub /\ ~lem /\ ~fz)

\* a text on which only the lemma and fuzzy stages hit is reported as lemma
C2_Witness ==
    /\ pc = "matches_any"
    /\ text = <<"l","i","s","t"," ","e","m","p","t","y">>
    /\ ~StageRegex /\ ~StageSubstr /\ StageLemma /\ StageFuzzy
    /\ ret = <<<<"e","m","p","t","y"," ","l","i","s","t">>, S_lemma>>

\* C6: a phrase of the list that is present verbatim in the text is reported
\* with method substr, never lemma or fuzzy (texts on which the detector
\* fires are left aside: that stage precedes the phrase stages).
C6_VerbatimPhraseIsSubstr ==
    (/\ pc = "matches_any"
     /\ ~Falsy(text)
     /\ ~StageRegex
     /\ \E k \in DOMAIN patterns : Contains(text, patterns[k]))
        => (ret # None /\ ret[2] = S_substr)

\* C7: scores and thresholds of the fuzzy stage
FuzzyThreshold(p) == IF Len(Split(p)) <= 2 THEN 88 ELSE 82
\* the scores of the first k phrases against txt, in list order
RECURSIVE ScoresOf(_, _, _)
ScoresOf(txt, pats, k) ==
    IF k = 0 THEN <<>>
    ELSE Append(ScoresOf(txt, pats, k - 1), token_sort_ratio(txt, pats[k]))

\* C7: fuzzy_match returns (p, score) exactly when the normalized text is
\* non-empty, p is the highest-scoring phrase of the list, the first one among
\* equal scores, and its score reaches 88 for a phrase of at most two words
\* and 82 for a longer one; otherwise it returns no match.
C7_FuzzyBestAndThreshold ==
    pc = "fuzzy_match" =>
        \E txt \in {_normalize_keep_paren(text)} :
            \E sc \in {ScoresOf(txt, patterns, Len(patterns))} :
                LET IsBest(k) == \A j \in DOMAIN patterns :
                                    /\ j < k => ScoreGreater(sc[k], sc[j])
                                    /\ j > k => ~ScoreGreater(sc[j], sc[k])
                    Hits == {k \in DOMAIN patterns :
                                IsBest(k) /\ ScoreAtLeast(sc[k], FuzzyThreshold(patterns[k]))}
                IN IF txt # <<>> /\ Hits # {}
                   THEN \E k \in Hits : ret = <<patterns[k], ScoreInt(sc[k])>>
                   ELSE ret = None

\* a three-word phrase has matched with a score between 82 and 87
C7_Witness ==
    /\ pc = "fuzzy_match"
    /\ text = <<"o","n","e"," ","t","o"," ","m","e","n","y">>
    /\ ret = <<<<"o","n","e"," ","t","o","o"," ","m","a","n","y">>, 86>>

(***************************************************************************)
(* The pair scorer                                                         *)
(***************************************************************************)
Returned(r) == "pass" \in DOMAIN r          \* the call returned a result
NoMatchEntry == <<FALSE, None, None>>
OrEmpty(s) == IF Falsy(s) THEN <<>> ELSE s
Expected == Range(expected_mistakes)

\* C1: pass is true exactly when, for every expected category, both the
\* peer-detected entry and the teacher-fixed entry are matched; an empty list
\* gives pass = true.
C1_PassIffAllMatched ==
    pc = "score_pair" =>
        /\ Returned(ret)
        /\ ret.pass <=> \A c \in Expected : ret.peer_detected[c][1] /\ ret.teacher_fixed[c][1]
        /\ expected_mistakes = <<>> => ret.pass

\* one category, matched on the peer side only: pass is false
C1_Witness ==
    /\ pc = "score_pair"
    /\ Len(expected_mistakes) = 1
    /\ ret.peer_detected[expected_mistakes[1]][1]
    /\ ~ret.teacher_fixed[expected_mistakes[1]][1]
    /\ ~ret.pass

\* the entry the detector alone gives for a text
RegexEntry(s) == <<TRUE, _regex_complexity_detect(s)[1], S_regex_complexity>>

\* C3: when a text contains a recognized complexity notation, its entry is
\* (True, family key, regex_complexity) for every expected category, whatever
\* the category's phrase list; two such texts are both matched.
C3_RegexShortCircuit ==
    pc = "score_pair" =>
        /\ Returned(ret)
        /\ \A c \in Expected :
            /\ _regex_complexity_detect(peer_text) # None
                   => ret.peer_detected[c] = RegexEntry(peer_text)
            /\ _regex_complexity_detect(teacher_text) # None
                   => ret.teacher_fixed[c] = RegexEntry(teacher_text)
        /\ (/\ _regex_complexity_detect(peer_text) # None
            /\ _regex_complexity_detect(teacher_text) # None) => ret.pass

\* both texts carry a notation; an unrelated and an unknown category pass
C3_Witness ==
    /\ pc = "score_pair"
    /\ peer_text = <<"O","(","n","^","2",")">>
    /\ teacher_text = <<"O","(","n","^","2",")">>
    /\ expected_mistakes = <<C_edge_case, C_nonexistent_category>>
    /\ ret.peer_detected[C_edge_case] = <<TRUE, K_quadratic, S_regex_complexity>>
    /\ ret.teacher_fixed[C_nonexistent_category] = <<TRUE, K_quadratic, S_regex_complexity>>
    /\ ret.pass

\* C8: an empty or absent text gets no match for every phrase list, so that
\* side of every expected category is (False, None, None), pass is false when
\* the list is non-empty, and the call does not raise.
C8_EmptyTextNoMatch ==
    pc = "score_pair" =>
        /\ Returned(ret)
        /\ Falsy(peer_text) =>
            /\ \A pl \in PhraseLists : _matches_any(peer_text, pl) = None
            /\ \A c \in Expected : ret.peer_detected[c] = NoMatchEntry
        /\ Falsy(teacher_text) =>
            /\ \A pl \in PhraseLists : _matches_any(teacher_text, pl) = None
            /\ \A c \in Expected : ret.teacher_fixed[c] = NoMatchEntry
        /\ (expected_mistakes # <<>> /\ (Falsy(peer_text) \/ Falsy(teacher_text))) => ~ret.pass

\* an absent peer text against a teacher text that matches
C8_Witness ==
    /\ pc = "score_pair"
    /\ peer_text = None
    /\ teacher_text = <<"b","a","s","e"," ","c","a","s","e">>
    /\ expected_mistakes = <<C_missing_base_case>>
    /\ ret.teacher_fixed[C_missing_base_case][1]
    /\ ret.peer_detected[C_missing_base_case] = NoMatchEntry
    /\ ~ret.pass

\* C9: a category that is in neither table does not make score_pair raise: it
\* is scored against the empty phrase list, on which the substring, lemma and
\* fuzzy stages miss, and its entries are (False, None, None) unless the
\* detector hits on the text.
C9_UnknownCategory ==
    pc = "score_pair" =>
        /\ Returned(ret)
        /\ \A c \in Expected \ (DOMAIN PEER_INDICATORS \cup DOMAIN TEACHER_INDICATORS) :
            /\ \A s \in {OrEmpty(peer_text), OrEmpty(teacher_text)} :
                /\ _contains_any_substring(s, <<>>) = None
                /\ _lemma_token_match(s, <<>>) = None
                /\ _fuzzy_match(s, <<>>) = None
            /\ ret.peer_detected[c] =
                   IF _regex_complexity_detect(peer_text) # None
                   THEN RegexEntry(peer_text) ELSE NoMatchEntry
            /\ ret.teacher_fixed[c] =
                   IF _regex_complexity_detect(teacher_text) # None
                   THEN RegexEntry(teacher_text) ELSE NoMatchEntry

\* an unknown category, unmatched on prose and matched by the detector
C9_Witness ==
    /\ pc = "score_pair"
    /\ expected_mistakes = <<C_nonexistent_category>>
    /\ peer_text = <<"h","e","l","l","o">>
    /\ teacher_text = <<"O","(","n","^","2",")">>
    /\ ret.peer_detected[C_nonexistent_category] = NoMatchEntry
    /\ ret.teacher_fixed[C_nonexistent_category] = <<TRUE, K_quadratic, S_regex_complexity>>

(***************************************************************************)
(* Concurrent callers                                                      *)
(***************************************************************************)
\* C11: whatever the interleaving of the threads, no step changes the
\* phrase-list tables, the regex table or the analyzer handle, and a call
\* that has returned holds the result score_pair gives for its arguments
\* when run alone.
C11_ConcurrentCallsIndependent ==
    [][ /\ tables' = tables
        /\ nlp' = nlp
        /\ \A t \in Threads :
              /\ (calls[t].at = "done" /\ calls'[t].at = "done") => calls'[t] = calls[t]
              /\ (calls[t].at # "done" /\ calls'[t].at = "done") =>
                     calls'[t].result = score_pair(calls'[t].peer, calls'[t].teacher,
                                                   calls'[t].expected) ]_vars

\* both threads are inside the loop of calls with different arguments, one
\* of them past its first pass
C11_Witness ==
    /\ calls["t1"].at = "loop" /\ calls["t1"].i = 2
    /\ calls["t2"].at = "loop" /\ calls["t2"].i = 1
    /\ calls["t1"].peer # calls["t2"].peer
    /\ calls["t1"].expected # calls["t2"].expected
    /\ calls["t2"].expected # <<>>

(***************************************************************************)
(* The analyzer handle and the lemma helper                                *)
(***************************************************************************)
\* C12: the analyzer is loaded once, when the module is imported (Init): no
\* call changes the handle afterwards, so a failed load stays a failed load;
\* and with the analyzer absent a lemma request returns the whitespace-split
\* tokens of the normalized text (the request returns a list, it never raises).
C12_AnalyzerLoadedOnce ==
    [][ /\ nlp' = nlp
        /\ (pc' = "lemmatize_tokens" /\ nlp = "None") =>
               ret' = Split(_normalize_keep_paren(text')) ]_vars

\* with the analyzer absent, a text with an apostrophe has been split after
\* normalization
C12_Witness ==
    /\ pc = "lemmatize_tokens"
    /\ nlp = "None"
    /\ text = <<"d","o","n","'","t"," ","c","h","e","c","k"," ","e","m","p","t","y">>
    /\ ret = <<<<"d","o","n">>, <<"t">>, <<"c","h","e","c","k">>, <<"e","m","p","t","y">>>>

\* C14: the substring stage returns the first phrase of the list whose
\* normalized form is a substring of the normalized text, and nothing when
\* no phrase has such a normalized form.
C14_SubstrFirstNormalizedPhrase ==
    pc = "contains_any_substring" =>
        \E txt \in {_normalize_keep_paren(text)} :
            LET Hits == {k \in DOMAIN patterns :
                            Contains(txt, _normalize_keep_paren(patterns[k]))}
            IN IF Hits = {} THEN ret = None ELSE ret = patterns[SetMin(Hits)]

\* C15: the lemma stage returns the first phrase of the list such that all
\* the tokens of its normalized form are lemmas of the text, or its
\* normalized form is a run of n consecutive lemmas joined by spaces, n from
\* 1 to min(5, number of lemmas); it returns nothing when the text has no
\* lemmas or no phrase is such.
C15_LemmaFirstSatisfyingPhrase ==
    pc = "lemma_token_match" =>
        \E tokens \in {_lemmatize_tokens(text)} :
            LET L == Len(tokens)
                Grams == UNION {{Join(SubSeq(tokens, i, i + n - 1)) : i \in 1..(L - n + 1)} :
                                n \in 1..Min(5, L)}
                AllIn(k) == \A pt \in Range(Split(_normalize_keep_paren(patterns[k]))) :
                                pt \in Range(tokens)
                Sat == {k \in DOMAIN patterns :
                           AllIn(k) \/ _normalize_keep_paren(patterns[k]) \in Grams}
            IN IF tokens = <<>> \/ Sat = {} THEN ret = None
               ELSE ret = patterns[SetMin(Sat)]

\* the words of a phrase in another order: the substring stage misses, the
\* lemma stage returns the phrase
C15_Witness ==
    /\ pc = "lemma_token_match"
    /\ text = <<"l","i","s","t"," ","e","m","p","t","y">>
    /\ _contains_any_substring(text, patterns) = None
    /\ ret = <<"e","m","p","t","y"," ","l","i","s","t">>

(***************************************************************************)
(* Sessions                                                                *)
(***************************************************************************)
SessionRoles == <<"question", "peer_attempt", "learner_input", "teacher_reply", "summary">>

\* five turns with the roles in order, turn_id 1..5 and one session id
FiveTurns(transcript, sid) ==
    /\ Len(transcript) = 5
    /\ \A i \in 1..5 :
          /\ transcript[i].role = SessionRoles[i]
          /\ transcript[i].turn_id = i
          /\ transcript[i].session_id = sid

\* C13: a simulated session, from run_session or from POST /start_session,
\* has exactly the five turns question, peer_attempt, learner_input,
\* teacher_reply, summary, in that order, with turn_id 1 to 5 and the
\* session id of the session on every turn.
C13_SimulatedSessionFiveTurns ==
    /\ (pc = "run_session" /\ run_args.simulate) => FiveTurns(ret, run_args.session_id)
    /\ \A w \in Workers :
          (reqs[w].at = "responded" /\ reqs[w].route = "start_session" /\ reqs[w].simulate)
              => /\ FiveTurns(reqs[w].transcript, reqs[w].sid)
                 /\ SESSION_STORE[reqs[w].sid] = reqs[w].transcript

\* a simulated run_session has returned while a simulated start_session
\* request is being answered
C13_Witness ==
    /\ pc = "run_session" /\ run_args.simulate
    /\ Len(ret) = 5
    /\ \E w \in Workers :
          /\ reqs[w].at = "responded" /\ reqs[w].route = "start_session"
          /\ reqs[w].simulate
          /\ Len(SESSION_STORE[reqs[w].sid]) = 5

\* C19: in every stored transcript the turn_id values are 1, 2, ..., n in
\* transcript order, whatever the interleaving of start and step requests;
\* and a step request answered with 200 has added one teacher_reply turn
\* whose turn_id is the length of the transcript it answers with.
C19_TurnIdsSequential ==
    /\ \A sid \in DOMAIN SESSION_STORE :
          \A i \in 1..Len(SESSION_STORE[sid]) : SESSION_STORE[sid][i].turn_id = i
    /\ \A w \in Workers :
          (reqs[w].at = "responded" /\ reqs[w].route = "step_session" /\ reqs[w].status = 200)
              => LET turns == reqs[w].transcript
                 IN /\ turns[Len(turns)].role = "teacher_reply"
                    /\ turns[Len(turns)].turn_id = Len(turns)

Methods == {S_regex_complexity, S_substr, S_lemma} \cup {S_fuzzy \o IntToStr(n) : n \in 0..100}
RegexKeys == {COMPLEXITY_REGEX[i][1] : i \in DOMAIN COMPLEXITY_REGEX}
\* e is a well-formed entry for a category whose phrase list is pats
WellFormedEntry(e, pats) ==
    \/ e = <<FALSE, None, None>>
    \/ /\ Len(e) = 3 /\ e[1] = TRUE
       /\ e[2] # None /\ e[2] # <<>>
       /\ e[3] \in Methods
       /\ IF e[3] = S_regex_complexity THEN e[2] \in RegexKeys
                                        ELSE e[2] \in Range(pats)

\* C17: every entry of a score_pair result is (False, None, None) or
\* (True, p, m) with p a non-empty string and m one of regex_complexity,
\* substr, lemma, fuzzy:<0..100>; when m is regex_complexity p is a key of
\* COMPLEXITY_REGEX, otherwise p is a phrase of the category's list for that
\* side (the empty list for a category the table does not have).
C17_EntriesWellFormed ==
    (pc = "score_pair" /\ Returned(ret)) =>
        \A c \in Expected :
            /\ WellFormedEntry(ret.peer_detected[c], DictGet(PEER_INDICATORS, c, <<>>))
            /\ WellFormedEntry(ret.teacher_fixed[c], DictGet(TEACHER_INDICATORS, c, <<>>))

\* a result whose peer entry was found by the fuzzy stage while its teacher
\* entry is the no-match entry
C17_Witness ==
    /\ pc = "score_pair" /\ Returned(ret)
    /\ expected_mistakes = <<C_off_by_one>>
    /\ IsFuzzyMethod(ret.peer_detected[C_off_by_one][3])
    /\ ret.teacher_fixed[C_off_by_one] = <<FALSE, None, None>>

\* C18: peer_detected[c] depends on peer_text and c alone, teacher_fixed[c]
\* on teacher_text and c alone: in every call whose list contains c, the peer
\* entry of c is the one of the call score_pair(peer_text, None, [c]) and the
\* teacher entry of c is the one of score_pair(None, teacher_text, [c]), so
\* two calls that agree on peer_text (teacher_text) and contain c agree on
\* peer_detected[c] (teacher_fixed[c]) whatever the other text and the other
\* categories are.
C18_EntriesIndependent ==
    (pc = "score_pair" /\ Returned(ret)) =>
        \A c \in Expected :
            \E peer_alone \in {score_pair(peer_text, None, <<c>>)},
               teacher_alone \in {score_pair(None, teacher_text, <<c>>)} :
                /\ ret.peer_detected[c] = peer_alone.peer_detected[c]
                /\ ret.teacher_fixed[c] = teacher_alone.teacher_fixed[c]

\* a call with two categories and two different texts, the peer text matched
\* for the first category and not for the second
C18_Witness ==
    /\ pc = "score_pair" /\ Returned(ret)
    /\ expected_mistakes = <<C_missing_base_case, C_off_by_one>>
    /\ peer_text = <<"b","a","s","e"," ","c","a","s","e">>
    /\ teacher_text = <<"o","n","e"," ","t","o"," ","m","e","n","y">>
    /\ ret.peer_detected[C_missing_base_case][1] = TRUE
    /\ ret.peer_detected[C_off_by_one][1] = FALSE

(***************************************************************************)
(* SessionStore under concurrent callers                                   *)
(***************************************************************************)
\* what a sequential reading of the log h says about session id
Creates(h, id) == {i \in 1..Len(h) : h[i].op = "create_session" /\ h[i].session_id = id}
SetsAfter(h, id, k) ==
    {i \in (k + 1)..Len(h) : h[i].op = "set_transcript" /\ h[i].session_id = id}
Last(S) == CHOOSE i \in S : \A j \in S : j <= i
LastTranscript(h, id) ==
    IF Creates(h, id) = {} THEN None
    ELSE IF SetsAfter(h, id, Last(Creates(h, id))) = {} THEN None
    ELSE h[Last(SetsAfter(h, id, Last(Creates(h, id))))].arg
InBlock(t) == store_calls[t].at \notin {"idle", "acquire"}
BodyDone == \A t \in Threads : InBlock(t) => store_calls[t].at = "release"

\* C20: the method bodies exclude each other (at most one thread is inside
\* a with-block, and it holds the lock); whenever no body is half-way, the
\* store holds exactly the ids created so far, each with the meta of its last
\* create_session and with the transcript of the last set_transcript that
\* followed its last create_session (None when there is none), so a
\* set_transcript on an id never created has changed nothing; and
\* get_transcript and exists return what the calls before them determine.
C20_SessionStoreThreadSafe ==
    /\ \A t, u \in Threads : (InBlock(t) /\ InBlock(u)) => t = u
    /\ \A t \in Threads : InBlock(t) => _lock = t
    /\ BodyDone =>
          /\ DOMAIN _store = {id \in StoreIds : Creates(store_log, id) # {}}
          /\ \A id \in DOMAIN _store :
                /\ _store[id].meta = store_log[Last(Creates(store_log, id))].arg
                /\ _store[id].transcript = LastTranscript(store_log, id)
    /\ \A t \in Threads :
          store_calls[t].at = "release" =>
              /\ store_calls[t].op = "get_transcript" =>
                    store_calls[t].result = LastTranscript(store_log, store_calls[t].session_id)
              /\ store_calls[t].op = "exists" =>
                    store_calls[t].result = (Creates(store_log, store_calls[t].session_id) # {})

\* s1 was created and given two transcripts in turn; one thread's
\* get_transcript("s1") has read the second while the other thread waits for
\* the lock with a get_transcript on s2, which was never created
C20_Witness ==
    /\ Len(store_log) = 3
    /\ store_log[1].op = "create_session" /\ store_log[1].session_id = "s1"
    /\ store_log[2] = [op |-> "set_transcript", session_id |-> "s1", arg |-> <<1>>]
    /\ store_log[3] = [op |-> "set_transcript", session_id |-> "s1", arg |-> <<1, 2>>]
    /\ \E t, u \in Threads :
          /\ store_calls[t].at = "release" /\ store_calls[t].op = "get_transcript"
          /\ store_calls[t].session_id = "s1" /\ store_calls[t].result = <<1, 2>>
          /\ store_calls[u].at = "acquire" /\ store_calls[u].op = "get_transcript"
          /\ store_calls[u].session_id = "s2"
          /\ "s2" \notin DOMAIN _store

(***************************************************************************)
(* Key sets of a score_pair result                                         *)
(***************************************************************************)
\* the list e with every repeated category dropped, first occurrences kept
RECURSIVE FirstOccurrences(_, _)
FirstOccurrences(e, k) ==
    IF k > Len(e) THEN <<>>
    ELSE IF \E j \in 1..(k - 1) : e[j] = e[k] THEN FirstOccurrences(e, k + 1)
    ELSE <<e[k]>> \o FirstOccurrences(e, k + 1)

\* C21: in every score_pair result peer_detected and teacher_fixed have the
\* same key set, the set of distinct categories of the list; and a list that
\* names a category more than once gives the same result, pass included, as
\* the list with each category named once.
C21_KeysAreDistinctCategories ==
    (pc = "score_pair" /\ Returned(ret)) =>
        /\ DOMAIN ret.peer_detected = Expected
        /\ DOMAIN ret.teacher_fixed = Expected
        /\ \E once \in {FirstOccurrences(expected_mistakes, 1)} :
              once # expected_mistakes =>
                  ret = score_pair(peer_text, teacher_text, once)

\* a call that names off_by_one twice on two texts holding a complexity
\* notation: one entry per dict, both matched, pass true
C21_Witness ==
    /\ pc = "score_pair" /\ Returned(ret)
    /\ expected_mistakes = <<C_off_by_one, C_off_by_one>>
    /\ peer_text = <<"O","(","n",")">> /\ teacher_text = <<"O","(","n",")">>
    /\ DOMAIN ret.peer_detected = {C_off_by_one}
    /\ ret.peer_detected[C_off_by_one][1] /\ ret.teacher_fixed[C_off_by_one][1]
    /\ ret.pass

====
